---- MODULE Spec2Model ----
(***************************************************************************)
(* Model of the local paper metadata store of server.py: search_papers     *)
(* (the upsert of a topic namespace), extract_info (lookup by paper id),   *)
(* get_available_folders (topic listing) and get_topic_papers (topic       *)
(* rendering), over a file system holding papers/<topic>/papers_info.json. *)
(*                                                                         *)
(* A topic is a sequence of one-character strings.  A summary is a         *)
(* sequence of runs [ch, n] standing for n repetitions of the character    *)
(* ch, so that summaries longer than 500 characters stay small.  A dict is *)
(* a sequence of key/value pairs in insertion order, as Python dicts and   *)
(* json keep it.                                                           *)
(***************************************************************************)
EXTENDS Naturals, Sequences, FiniteSets

VARIABLES
    paper_dir,  \* TRUE iff the directory PAPER_DIR exists
    store,      \* directory name -> what PAPER_DIR holds under that name
    last,       \* the most recent completed call: arguments, locals, outcome
    req         \* per concurrent client: position in search_papers and locals

vars == <<paper_dir, store, last, req>>

----------------------------------------------------------------------------
(* Bounds and inputs *)

\* the most results one search_papers call receives from the search service
MaxResults == 2

\* the most results per call of the two interleaved clients
MaxConcResults == 1

\* summary[:500]
SummaryLimit == 500

UpperCase == <<"A","B","C","D","E","F","G","H","I","J","K","L","M",
               "N","O","P","Q","R","S","T","U","V","W","X","Y","Z">>
LowerCase == <<"a","b","c","d","e","f","g","h","i","j","k","l","m",
               "n","o","p","q","r","s","t","u","v","w","x","y","z">>

\* "Quantum Computing", "quantum computing" and "x"
QuantumComputing == <<"Q","u","a","n","t","u","m"," ","C","o","m","p","u","t","i","n","g">>
quantum_computing_spaced == <<"q","u","a","n","t","u","m"," ","c","o","m","p","u","t","i","n","g">>
quantum_computing == <<"q","u","a","n","t","u","m","_","c","o","m","p","u","t","i","n","g">>
topic_x == <<"x">>

Topics == {QuantumComputing, quantum_computing_spaced, topic_x}

PaperIds == {"2401.00001v1", "2401.00002v1"}
QueryIds == PaperIds \cup {"9999.99999v9"}
Revisions == {"a", "b"}
Procs == {1, 2}

----------------------------------------------------------------------------
(* String functions of Python used by the code *)

\* the case mappings of the ASCII letters
ToLower == [c \in {UpperCase[i] : i \in DOMAIN UpperCase} |->
              LowerCase[CHOOSE i \in DOMAIN UpperCase : UpperCase[i] = c]]
ToUpper == [c \in {LowerCase[i] : i \in DOMAIN LowerCase} |->
              UpperCase[CHOOSE i \in DOMAIN LowerCase : LowerCase[i] = c]]

\* str.lower() on one character
LowerChar(c) == IF c \in DOMAIN ToLower THEN ToLower[c] ELSE c

\* str.upper() on one character
UpperChar(c) == IF c \in DOMAIN ToUpper THEN ToUpper[c] ELSE c

IsCased(c) == c \in DOMAIN ToLower \/ c \in DOMAIN ToUpper

\* the sequence f as an explicit tuple
AsSeq(f) == SubSeq(f, 1, Len(f))

\* str.lower()
Lower(s) == AsSeq([i \in DOMAIN s |-> LowerChar(s[i])])

\* str.replace(old, new) for one-character old and new
Replace(s, old, new) == AsSeq([i \in DOMAIN s |-> IF s[i] = old THEN new ELSE s[i]])

\* str.title(): a cased character is upper-cased after an uncased one (or at
\* the start) and lower-cased after a cased one
Title(s) ==
    AsSeq([i \in DOMAIN s |->
        IF i = 1 \/ ~IsCased(s[i - 1]) THEN UpperChar(s[i]) ELSE LowerChar(s[i])])

\* len(s) of a string given as runs
RECURSIVE StrLen(_)
StrLen(s) == IF s = <<>> THEN 0 ELSE Head(s).n + StrLen(Tail(s))

\* s[:n] of a string given as runs
RECURSIVE Prefix(_, _)
Prefix(s, n) ==
    IF s = <<>> \/ n = 0 THEN <<>>
    ELSE IF Head(s).n <= n THEN <<Head(s)>> \o Prefix(Tail(s), n - Head(s).n)
    ELSE <<[ch |-> Head(s).ch, n |-> n]>>

\* a directory name that keeps the topic's letter case
NoLowerTopicDir(topic) == Replace(topic, " ", "_")

\* topic.lower().replace(" ", "_")
TopicDir(topic) == Replace(Lower(topic), " ", "_")

\* the names PAPER_DIR can hold in this model
Names == {TopicDir(t) : t \in Topics}

----------------------------------------------------------------------------
(* Ordered dicts *)

Keys(d) == {d[i].key : i \in DOMAIN d}

\* d[k]
DictGet(d, k) == d[CHOOSE i \in DOMAIN d : d[i].key = k].val

\* a dict set that keeps the old authors of an existing key (a field-wise
\* merge instead of a replacement)
FieldMergeDictSet(d, k, v) ==
    IF k \in Keys(d)
    THEN AsSeq([i \in DOMAIN d |->
            IF d[i].key = k
            THEN [key |-> k, val |-> [v EXCEPT !.authors = d[i].val.authors]]
            ELSE d[i]])
    ELSE Append(d, [key |-> k, val |-> v])

\* d[k] = v: replaces the value of an existing key in place, else appends
DictSet(d, k, v) ==
    IF k \in Keys(d)
    THEN AsSeq([i \in DOMAIN d |-> IF d[i].key = k THEN [key |-> k, val |-> v] ELSE d[i]])
    ELSE Append(d, [key |-> k, val |-> v])

----------------------------------------------------------------------------
(* What the search service returns (arxiv.Result) *)

\* a 3-character summary and one of SummaryLimit + 2 characters
ShortSummary == <<[ch |-> "s", n |-> 1], [ch |-> "u", n |-> 1], [ch |-> "m", n |-> 1]>>
LongSummary == <<[ch |-> "l", n |-> SummaryLimit], [ch |-> "!", n |-> 2]>>

Result(id, rev) ==
    [short_id  |-> id,
     title     |-> <<"t", rev>>,
     authors   |-> IF rev = "a" THEN <<[name |-> "Ann"]>>
                   ELSE <<[name |-> "Ann"], [name |-> "Bob"]>>,
     summary   |-> IF rev = "a" THEN ShortSummary ELSE LongSummary,
     pdf_url   |-> <<"http://arxiv.org/pdf/", id, rev>>,
     published |-> [date |-> IF rev = "a" THEN "2024-01-01" ELSE "2024-02-02",
                    time |-> IF rev = "a" THEN "09:30:00" ELSE "17:45:00"]]

\* the first paper in both revisions, the second in one
Results ==
    {Result(id, rev) : id \in PaperIds, rev \in Revisions}
        \ {Result("2401.00002v1", "b")}

SeqsUpTo(S, n) == UNION {[1..k -> S] : k \in 0..n}

\* the paper_info dict built in the loop of search_papers
PaperInfo(paper) ==
    [title     |-> paper.title,
     authors   |-> AsSeq([i \in DOMAIN paper.authors |-> paper.authors[i].name]),
     summary   |-> paper.summary,
     pdf_url   |-> paper.pdf_url,
     published |-> paper.published.date]

----------------------------------------------------------------------------
(* The file system under PAPER_DIR *)

Absent    == [kind |-> "absent", file |-> "none", data |-> <<>>]
PlainFile == [kind |-> "file", file |-> "none", data |-> <<>>]
EmptyDir  == [kind |-> "dir", file |-> "none", data |-> <<>>]
Corrupt   == [kind |-> "dir", file |-> "corrupt", data |-> <<>>]

\* json.dump(papers_info, json_file, indent=2) into <dir>/papers_info.json
JsonFile(papers_info) == [kind |-> "dir", file |-> "json", data |-> papers_info]

\* os.path.isdir(item_path)
IsDir(e) == e.kind = "dir"

\* os.path.exists(papers_file) / os.path.isfile(file_path)
HasFile(e) == e.kind = "dir" /\ e.file # "none"

\* json.load raises JSONDecodeError
Unparseable(e) == e.file = "corrupt"

\* os.listdir(PAPER_DIR), as a set
ListDir(st) == {n \in DOMAIN st : st[n].kind # "absent"}

\* the orders in which os.listdir may return a set of names
Orders(S) ==
    {o \in [1..Cardinality(S) -> S] : \A i, j \in 1..Cardinality(S) : o[i] = o[j] => i = j}

NoCall ==
    [op |-> "none", topic |-> <<>>, paper_id |-> "", papers |-> <<>>,
     loaded |-> <<>>, out |-> [kind |-> "none"]]

Idle == [pc |-> "idle", topic |-> <<>>, papers |-> <<>>, papers_info |-> <<>>]

Init ==
    /\ paper_dir = FALSE
    /\ store = [n \in Names |-> Absent]
    /\ last = NoCall
    /\ req = [p \in Procs |-> Idle]

----------------------------------------------------------------------------
(* search_papers, step by step *)

\* os.makedirs(path, exist_ok=True) raises FileExistsError on a non-directory
MakeDirsRaises(st, path) == st[path].kind = "file"

\* os.makedirs(path, exist_ok=True)
MakeDirs(st, path) ==
    IF st[path].kind = "absent" THEN [st EXCEPT ![path] = EmptyDir] ELSE st

\* a load that ignores the file (the call would replace, not merge)
AlwaysEmptyLoad(e) == <<>>

\* try: json.load(open(file_path)) except (FileNotFoundError, JSONDecodeError): {}
LoadPapersInfo(e) ==
    IF HasFile(e) /\ ~Unparseable(e) THEN e.data ELSE <<>>

\* a loop that returns a repeated id once
RECURSIVE DedupProcessPapers(_, _, _)
DedupProcessPapers(papers, papers_info, paper_ids) ==
    IF papers = <<>>
    THEN [papers_info |-> papers_info, paper_ids |-> paper_ids]
    ELSE LET paper == Head(papers) IN
         DedupProcessPapers(Tail(papers),
                            DictSet(papers_info, paper.short_id, PaperInfo(paper)),
                            IF \E i \in DOMAIN paper_ids : paper_ids[i] = paper.short_id
                            THEN paper_ids
                            ELSE Append(paper_ids, paper.short_id))

\* for paper in papers: paper_ids.append(id); papers_info[id] = paper_info
RECURSIVE ProcessPapers(_, _, _)
ProcessPapers(papers, papers_info, paper_ids) ==
    IF papers = <<>>
    THEN [papers_info |-> papers_info, paper_ids |-> paper_ids]
    ELSE LET paper == Head(papers) IN
         ProcessPapers(Tail(papers),
                       DictSet(papers_info, paper.short_id, PaperInfo(paper)),
                       Append(paper_ids, paper.short_id))

\* with open(file_path, "w") as json_file: json.dump(papers_info, json_file)
Save(st, path, papers_info) == [st EXCEPT ![path] = JsonFile(papers_info)]

Raise(exc) == [kind |-> "raise", exc |-> exc]

Call(op, topic, paper_id, papers, loaded, out) ==
    [op |-> op, topic |-> topic, paper_id |-> paper_id, papers |-> papers,
     loaded |-> loaded, out |-> out]

\* one whole call of search_papers that the search service answers
search_papers(topic, papers) ==
    \E path \in {TopicDir(topic)} :
    /\ UNCHANGED req
    /\ IF MakeDirsRaises(store, path)
       THEN /\ UNCHANGED <<paper_dir, store>>
            /\ last' = Call("search_papers", topic, "", papers, <<>>,
                            Raise("FileExistsError"))
       ELSE \E made \in {MakeDirs(store, path)} :
            \E loaded \in {LoadPapersInfo(made[path])} :
            \E r \in {ProcessPapers(papers, loaded, <<>>)} :
               /\ paper_dir' = TRUE
               /\ store' = Save(made, path, r.papers_info)
               /\ last' = Call("search_papers", topic, "", papers, loaded,
                               [kind |-> "ids", ids |-> r.paper_ids])

\* a call of search_papers whose result iteration raises (the search service
\* fails): the directory is made, the file is not written
search_papers_fails(topic) ==
    \E path \in {TopicDir(topic)} :
    /\ UNCHANGED req
    /\ IF MakeDirsRaises(store, path)
       THEN /\ UNCHANGED <<paper_dir, store>>
            /\ last' = Call("search_papers", topic, "", <<>>, <<>>,
                            Raise("FileExistsError"))
       ELSE /\ paper_dir' = TRUE
            /\ store' = MakeDirs(store, path)
            /\ last' = Call("search_papers", topic, "", <<>>,
                            LoadPapersInfo(MakeDirs(store, path)[path]),
                            Raise("ArxivError"))

----------------------------------------------------------------------------
(* extract_info *)

\* a scan that gives up after the first listed item
FirstItemScan(st, order, paper_id) ==
    IF order # <<>> /\ IsDir(st[Head(order)]) /\ HasFile(st[Head(order)])
       /\ ~Unparseable(st[Head(order)]) /\ paper_id \in Keys(st[Head(order)].data)
    THEN [kind |-> "found", info |-> DictGet(st[Head(order)].data, paper_id)]
    ELSE [kind |-> "not_found", paper_id |-> paper_id]

\* the loop over os.listdir(PAPER_DIR), in the order listdir gave
RECURSIVE ExtractScan(_, _, _)
ExtractScan(st, order, paper_id) ==
    IF order = <<>>
    THEN [kind |-> "not_found", paper_id |-> paper_id]
    ELSE LET e == st[Head(order)] IN
         IF IsDir(e) /\ HasFile(e) /\ ~Unparseable(e) /\ paper_id \in Keys(e.data)
         THEN [kind |-> "found", info |-> DictGet(e.data, paper_id)]
         ELSE ExtractScan(st, Tail(order), paper_id)

extract_info(paper_id) ==
    /\ UNCHANGED <<paper_dir, store, req>>
    /\ IF ~paper_dir
       THEN last' = Call("extract_info", <<>>, paper_id, <<>>, <<>>,
                         Raise("FileNotFoundError"))
       ELSE \E order \in Orders(ListDir(store)) :
              last' = Call("extract_info", <<>>, paper_id, <<>>, <<>>,
                           ExtractScan(store, order, paper_id))

----------------------------------------------------------------------------
(* get_available_folders *)

\* a folders list without the test for papers_info.json
AllDirsFolders(st, order) == SelectSeq(order, LAMBDA n : IsDir(st[n]))

\* the folders list built from the listing
AvailableFolders(st, order) ==
    SelectSeq(order, LAMBDA n : IsDir(st[n]) /\ HasFile(st[n]))

\* the markdown list; the closing hint names the last folder of the loop
FoldersContent(folders) ==
    IF folders # <<>>
    THEN [kind |-> "listing", folders |-> folders, hint |-> folders[Len(folders)]]
    ELSE [kind |-> "no_topics", folders |-> <<>>, hint |-> <<>>]

get_available_folders ==
    /\ UNCHANGED <<paper_dir, store, req>>
    /\ \E order \in Orders(IF paper_dir THEN ListDir(store) ELSE {}) :
         last' = Call("get_available_folders", <<>>, "", <<>>, <<>>,
                      FoldersContent(AvailableFolders(store, order)))

----------------------------------------------------------------------------
(* get_topic_papers *)

\* ', '.join(names)
RECURSIVE Join(_)
Join(names) ==
    IF Len(names) <= 1 THEN names
    ELSE <<Head(names), ", ">> \o Join(Tail(names))

\* the markdown section of one paper
RenderPaper(paper_id, paper_info) ==
    [title     |-> paper_info.title,
     paper_id  |-> paper_id,
     authors   |-> Join(paper_info.authors),
     published |-> paper_info.published,
     pdf_link  |-> [label |-> paper_info.pdf_url, target |-> paper_info.pdf_url],
     summary   |-> Prefix(paper_info.summary, SummaryLimit) \o <<[ch |-> ".", n |-> 3]>>]

\* a rendering that takes an unparseable file for an empty mapping
CorruptAsEmptyRenderEntry(e, topic) ==
    IF ~HasFile(e)
    THEN [kind |-> "no_papers", topic |-> topic]
    ELSE [kind    |-> "papers",
          title   |-> Title(Replace(topic, "_", " ")),
          total   |-> Len(e.data),
          entries |-> AsSeq([i \in DOMAIN e.data |->
                                RenderPaper(e.data[i].key, e.data[i].val)])]

\* the document get_topic_papers returns
RenderEntry(e, topic) ==
    IF ~HasFile(e)
    THEN [kind |-> "no_papers", topic |-> topic]
    ELSE IF Unparseable(e)
    THEN [kind |-> "corrupted", topic |-> topic]
    ELSE [kind    |-> "papers",
          title   |-> Title(Replace(topic, "_", " ")),
          total   |-> Len(e.data),
          entries |-> AsSeq([i \in DOMAIN e.data |->
                                RenderPaper(e.data[i].key, e.data[i].val)])]

RenderTopic(st, topic) == RenderEntry(st[TopicDir(topic)], topic)

\* a get_topic_papers that rewrites an unparseable file as an empty mapping
repairing_get_topic_papers(topic) ==
    /\ UNCHANGED <<paper_dir, req>>
    /\ store' = [n \in DOMAIN store |->
                   IF n = TopicDir(topic) /\ Unparseable(store[n])
                   THEN JsonFile(<<>>) ELSE store[n]]
    /\ last' = Call("get_topic_papers", topic, "", <<>>, <<>>, RenderTopic(store, topic))

get_topic_papers(topic) ==
    /\ UNCHANGED <<paper_dir, store, req>>
    /\ last' = Call("get_topic_papers", topic, "", <<>>, <<>>, RenderTopic(store, topic))

----------------------------------------------------------------------------
(* Sequential service: each call runs to completion before the next *)

\* what the search service may answer to one call
SearchInputs == SeqsUpTo(Results, MaxResults)

Next ==
    \/ \E topic \in Topics, papers \in SearchInputs :
         search_papers(topic, papers)
    \/ \E topic \in Topics : search_papers_fails(topic)
    \/ \E paper_id \in QueryIds : extract_info(paper_id)
    \/ get_available_folders
    \/ \E topic \in Topics \cup Names : get_topic_papers(topic)

Spec == Init /\ [][Next]_vars

----------------------------------------------------------------------------
(* Storage changed from outside the program: the states the handlers'     *)
(* existence checks and except clauses are written for                    *)

OutOfBand == Call("out_of_band", <<>>, "", <<>>, <<>>, [kind |-> "none"])

\* papers_info.json is overwritten with text that is not JSON
oob_corrupt_file(n) ==
    /\ IsDir(store[n])
    /\ store' = [store EXCEPT ![n] = Corrupt]
    /\ last' = OutOfBand
    /\ UNCHANGED <<paper_dir, req>>

\* papers_info.json is deleted
oob_delete_file(n) ==
    /\ HasFile(store[n])
    /\ store' = [store EXCEPT ![n] = EmptyDir]
    /\ last' = OutOfBand
    /\ UNCHANGED <<paper_dir, req>>

\* a topic directory (or a plain file of that name) is removed
oob_remove_entry(n) ==
    /\ store[n].kind # "absent"
    /\ store' = [store EXCEPT ![n] = Absent]
    /\ last' = OutOfBand
    /\ UNCHANGED <<paper_dir, req>>

\* a plain file is put into PAPER_DIR
oob_plain_file(n) ==
    /\ paper_dir
    /\ store[n].kind = "absent"
    /\ store' = [store EXCEPT ![n] = PlainFile]
    /\ last' = OutOfBand
    /\ UNCHANGED <<paper_dir, req>>

\* PAPER_DIR is removed with all it holds
oob_remove_paper_dir ==
    /\ paper_dir
    /\ paper_dir' = FALSE
    /\ store' = [n \in Names |-> Absent]
    /\ last' = OutOfBand
    /\ UNCHANGED req

NextEnv ==
    \/ Next
    \/ \E n \in Names : oob_corrupt_file(n)
    \/ \E n \in Names : oob_delete_file(n)
    \/ \E n \in Names : oob_remove_entry(n)
    \/ \E n \in Names : oob_plain_file(n)
    \/ oob_remove_paper_dir

SpecEnv == Init /\ [][NextEnv]_vars

----------------------------------------------------------------------------
(* Two clients whose search_papers calls interleave between the load      *)
(* (lines 48-52) and the write (lines 68-69)                              *)

\* lines 41-45: the directory is made
begin_search(p, topic, papers) ==
    /\ req[p].pc = "idle"
    /\ ~MakeDirsRaises(store, TopicDir(topic))
    /\ paper_dir' = TRUE
    /\ store' = MakeDirs(store, TopicDir(topic))
    /\ req' = [req EXCEPT ![p] = [pc |-> "load", topic |-> topic,
                                  papers |-> papers, papers_info |-> <<>>]]
    /\ UNCHANGED last

\* lines 48-52: the file is read, or taken as empty
load_file(p) ==
    /\ req[p].pc = "load"
    /\ req' = [req EXCEPT ![p].pc = "write",
                          ![p].papers_info = LoadPapersInfo(store[TopicDir(req[p].topic)])]
    /\ UNCHANGED <<paper_dir, store, last>>

\* a write step that merges into the file as it is at the time of writing
merge_on_write(p) ==
    /\ req[p].pc = "write"
    /\ \E path \in {TopicDir(req[p].topic)} :
         store' = Save(store, path,
                       ProcessPapers(req[p].papers, LoadPapersInfo(store[path]),
                                     <<>>).papers_info)
    /\ req' = [req EXCEPT ![p].pc = "done"]
    /\ UNCHANGED <<paper_dir, last>>

\* lines 55-73: the results are set into the loaded dict, the whole dict is
\* written, the call returns
write_file(p) ==
    /\ req[p].pc = "write"
    /\ store' = Save(store, TopicDir(req[p].topic),
                     ProcessPapers(req[p].papers, req[p].papers_info, <<>>).papers_info)
    /\ req' = [req EXCEPT ![p].pc = "done"]
    /\ UNCHANGED <<paper_dir, last>>

ConcInputs == SeqsUpTo(Results, MaxConcResults)

NextConc ==
    \/ \E p \in Procs, topic \in Topics, papers \in ConcInputs :
         begin_search(p, topic, papers)
    \/ \E p \in Procs : load_file(p)
    \/ \E p \in Procs : write_file(p)

SpecConc == Init /\ [][NextConc]_vars

----------------------------------------------------------------------------
(* Vocabulary of the properties *)

\* the paper ids persisted in a namespace
StoredIds(e) == IF HasFile(e) /\ ~Unparseable(e) THEN Keys(e.data) ELSE {}

\* the last call was a search_papers that returned
SearchReturned == last.op = "search_papers" /\ last.out.kind = "ids"

InputIds(papers) == {papers[i].short_id : i \in DOMAIN papers}

\* the last result of the input that carries the id
LastWith(papers, id) ==
    papers[CHOOSE i \in DOMAIN papers :
              /\ papers[i].short_id = id
              /\ \A j \in DOMAIN papers : j > i => papers[j].short_id # id]

\* how many entries of the persisted mapping have the key
Occurrences(d, id) == Cardinality({i \in DOMAIN d : d[i].key = id})

\* the record is field for field the one of the search result
IsRecordOf(info, paper) ==
    /\ info.title = paper.title
    /\ Len(info.authors) = Len(paper.authors)
    /\ \A i \in DOMAIN paper.authors : info.authors[i] = paper.authors[i].name
    /\ info.summary = paper.summary
    /\ info.pdf_url = paper.pdf_url
    /\ info.published = paper.published.date

ReadOps == {"extract_info", "get_available_folders", "get_topic_papers"}

----------------------------------------------------------------------------
(* C1: merge, not replace.  Over any sequence of search_papers calls, with *)
(* no out-of-band change of storage, the set of paper ids persisted in a   *)
(* namespace never shrinks: every step keeps the ids a namespace held.     *)
C1_MergeNotReplace ==
    [][\A n \in Names : StoredIds(store[n]) \subseteq StoredIds(store'[n])]_vars

\* a search has added a new id to a namespace that held another id, and the
\* namespace holds both
C1_Witness ==
    /\ SearchReturned
    /\ \E a \in Keys(last.loaded), b \in InputIds(last.papers) :
         /\ a # b
         /\ a \notin InputIds(last.papers)
         /\ b \notin Keys(last.loaded)
         /\ {a, b} \subseteq StoredIds(store[TopicDir(last.topic)])

(* C2: idempotent overwrite.  After search_papers returns, every id of its *)
(* results has exactly one record in the namespace, that record is field   *)
(* for field the one built from the call's (last) result with that id, and *)
(* every other record of the namespace is the one that was loaded.         *)
C2_IdempotentOverwrite ==
    SearchReturned =>
        LET d == store[TopicDir(last.topic)].data IN
        /\ store[TopicDir(last.topic)].file = "json"
        /\ Keys(d) = Keys(last.loaded) \cup InputIds(last.papers)
        /\ \A id \in Keys(d) : Occurrences(d, id) = 1
        /\ \A id \in InputIds(last.papers) :
             IsRecordOf(DictGet(d, id), LastWith(last.papers, id))
        /\ \A id \in Keys(last.loaded) \ InputIds(last.papers) :
             DictGet(d, id) = DictGet(last.loaded, id)

\* a search has returned a result for an id stored with other field values,
\* beside a record of another id
C2_Witness ==
    /\ SearchReturned
    /\ \E id \in InputIds(last.papers) \cap Keys(last.loaded) :
         /\ ~IsRecordOf(DictGet(last.loaded, id), LastWith(last.papers, id))
         /\ DictGet(last.loaded, id).authors # DictGet(store[TopicDir(last.topic)].data, id).authors
    /\ Keys(last.loaded) \ InputIds(last.papers) # {}

(* C3: cross-topic isolation.  A search_papers call leaves every namespace *)
(* but its own as it was; and extract_info for an id stored in exactly one *)
(* namespace returns that namespace's record, whatever order the           *)
(* namespaces are listed in.                                               *)
C3_CrossTopicIsolation ==
    /\ [][last'.op = "search_papers" =>
            \A n \in Names \ {TopicDir(last'.topic)} : store'[n] = store[n]]_vars
    /\ [](last.op = "extract_info" =>
            \A n \in Names :
                (/\ last.paper_id \in StoredIds(store[n])
                 /\ \A m \in Names \ {n} : last.paper_id \notin StoredIds(store[m]))
                => /\ last.out.kind = "found"
                   /\ last.out.info = DictGet(store[n].data, last.paper_id))

\* extract_info has found an id held by one of two healthy namespaces that
\* hold different ids
C3_Witness ==
    /\ last.op = "extract_info"
    /\ last.out.kind = "found"
    /\ \E n, m \in Names :
         /\ n # m
         /\ StoredIds(store[n]) = {last.paper_id}
         /\ StoredIds(store[m]) # {}
         /\ last.paper_id \notin StoredIds(store[m])

(* C4: lookup miss.  In every storage state, extract_info for an id that   *)
(* no namespace stores returns the not-found message carrying the id.      *)
C4_LookupMiss ==
    (/\ last.op = "extract_info"
     /\ \A n \in Names : last.paper_id \notin StoredIds(store[n]))
    => /\ last.out.kind = "not_found"
       /\ last.out.paper_id = last.paper_id

(* C5, as stated: every topic get_available_folders lists is a directory   *)
(* whose papers_info.json parses as a mapping.                             *)
C5_ListedOnlyValid ==
    last.op = "get_available_folders" =>
        \A i \in DOMAIN last.out.folders :
            /\ IsDir(store[last.out.folders[i]])
            /\ store[last.out.folders[i]].file = "json"

(* C5, amended: get_available_folders lists exactly the directories that   *)
(* have a papers_info.json file, parseable or not, each once; it gives the *)
(* no-topics message exactly when there is none.                           *)
C5_ListedIffFileExists ==
    last.op = "get_available_folders" =>
        LET folders == last.out.folders IN
        /\ {folders[i] : i \in DOMAIN folders}
             = {n \in Names : IsDir(store[n]) /\ store[n].file # "none"}
        /\ \A i, j \in DOMAIN folders : folders[i] = folders[j] => i = j
        /\ (last.out.kind = "no_topics") = (folders = <<>>)
        /\ last.out.kind \in {"no_topics", "listing"}

\* the listing shows a namespace whose file is corrupt beside a healthy one
C5_Witness ==
    /\ last.op = "get_available_folders"
    /\ \E i, j \in DOMAIN last.out.folders :
         /\ Unparseable(store[last.out.folders[i]])
         /\ StoredIds(store[last.out.folders[j]]) # {}

(* C6: get_topic_papers never raises, and the namespace's storage decides  *)
(* its outcome: no file, the no-papers message; an unparseable file, the   *)
(* corrupted message; a mapping, the document whose total is the number of *)
(* records and which has one entry per stored id.                          *)
C6_RenderOutcome ==
    last.op = "get_topic_papers" =>
        LET e == store[TopicDir(last.topic)] IN
        /\ last.out.kind \in {"no_papers", "corrupted", "papers"}
        /\ (last.out.kind = "no_papers") = (e.kind # "dir" \/ e.file = "none")
        /\ (last.out.kind = "corrupted") = (e.kind = "dir" /\ e.file = "corrupt")
        /\ last.out.kind = "papers" =>
             /\ last.out.total = Cardinality(StoredIds(e))
             /\ Len(last.out.entries) = last.out.total
             /\ \A id \in StoredIds(e) :
                  Cardinality({i \in DOMAIN last.out.entries :
                                  last.out.entries[i].paper_id = id}) = 1

\* a topic whose file is corrupt has been rendered while another namespace
\* is healthy
C6_Witness ==
    /\ last.op = "get_topic_papers"
    /\ last.out.kind = "corrupted"
    /\ \E n \in Names : StoredIds(store[n]) # {}

(* C7: topic name normalization.  "Quantum Computing" and "quantum         *)
(* computing" both resolve to the namespace quantum_computing: a search    *)
(* under either spelling loads from and persists into it, a rendering      *)
(* under either spelling renders it, and what a search under one spelling  *)
(* returned is rendered by the next call under the other.                  *)
C7_TopicNormalization ==
    /\ [](\A t \in {QuantumComputing, quantum_computing_spaced} :
            /\ TopicDir(t) = quantum_computing
            /\ (SearchReturned /\ last.topic = t) =>
                 /\ quantum_computing \in DOMAIN store
                 /\ Keys(last.loaded) \cup InputIds(last.papers)
                      = StoredIds(store[quantum_computing])
            /\ (last.op = "get_topic_papers" /\ last.topic = t) =>
                 /\ quantum_computing \in DOMAIN store
                 /\ (last.out.kind = "papers") = (store[quantum_computing].file = "json")
                 /\ last.out.kind = "papers" =>
                      {last.out.entries[i].paper_id : i \in DOMAIN last.out.entries}
                        = StoredIds(store[quantum_computing]))
    /\ [][\A t, u \in {QuantumComputing, quantum_computing_spaced} :
            (/\ SearchReturned
             /\ last.topic = t
             /\ last'.op = "get_topic_papers"
             /\ last'.topic = u)
            => /\ last'.out.kind = "papers"
               /\ InputIds(last.papers)
                    \subseteq {last'.out.entries[i].paper_id : i \in DOMAIN last'.out.entries}]_vars

\* "Quantum Computing" has been rendered with the records that searches
\* persisted in quantum_computing
C7_Witness ==
    /\ last.op = "get_topic_papers"
    /\ last.topic = QuantumComputing
    /\ last.out.kind = "papers"
    /\ last.out.total = 2
    /\ last.out.title = QuantumComputing

(* C8: search_papers returns the ids of its results in input order, one    *)
(* per result, and every returned id is then a key of the namespace.       *)
C8_ReturnsInputIds ==
    SearchReturned =>
        /\ Len(last.out.ids) = Len(last.papers)
        /\ \A i \in DOMAIN last.papers : last.out.ids[i] = last.papers[i].short_id
        /\ \A i \in DOMAIN last.out.ids :
             last.out.ids[i] \in StoredIds(store[TopicDir(last.topic)])

\* a search whose results carry one id twice has returned, on a namespace
\* that held another id
C8_Witness ==
    /\ SearchReturned
    /\ Len(last.papers) = 2
    /\ last.papers[1].short_id = last.papers[2].short_id
    /\ last.papers[1] # last.papers[2]
    /\ Keys(last.loaded) \ InputIds(last.papers) # {}

\* the mapping a client writes: what it loaded with its results set into it
WrittenBy(p) == ProcessPapers(req[p].papers, req[p].papers_info, <<>>).papers_info

C9_Outcome ==
    /\ \A p \in Procs :
         req[p].pc = "done" =>
            \/ store[TopicDir(req[p].topic)] = JsonFile(WrittenBy(p))
            \/ \E q \in Procs \ {p} :
                 /\ req[q].pc = "done"
                 /\ TopicDir(req[q].topic) = TopicDir(req[p].topic)
                 /\ store[TopicDir(req[p].topic)] = JsonFile(WrittenBy(q))
    /\ \A n \in Names :
         (\A p \in Procs : req[p].pc = "idle" \/ TopicDir(req[p].topic) # n)
            => store[n] = Absent

(* C9: concurrent writers.  A client's write step leaves its namespace     *)
(* holding exactly the mapping that client wrote (what it loaded with its  *)
(* own results set into it) and changes no other namespace.  So once a     *)
(* client has written, its namespace holds that mapping unless the other   *)
(* client wrote the same namespace, and then it holds exactly what one of  *)
(* the two wrote; a namespace no client has begun on is untouched.         *)
C9_LastWriterWins ==
    /\ [][\A p \in Procs :
            (req[p].pc = "write" /\ req'[p].pc = "done") =>
               /\ store'[TopicDir(req[p].topic)] = JsonFile(WrittenBy(p))
               /\ \A n \in Names \ {TopicDir(req[p].topic)} : store'[n] = store[n]]_vars
    /\ [](C9_Outcome)


\* both clients have written the same namespace and an id one of them wrote
\* is gone
C9_Witness ==
    /\ \A p \in Procs : req[p].pc = "done"
    /\ TopicDir(req[1].topic) = TopicDir(req[2].topic)
    /\ \E p \in Procs :
         InputIds(req[p].papers) \ StoredIds(store[TopicDir(req[p].topic)]) # {}

(* C10: the read operations are pure.  extract_info, get_available_folders *)
(* and get_topic_papers leave PAPER_DIR and everything under it as it was, *)
(* in every storage state.                                                 *)
C10_ReadsArePure ==
    [][last'.op \in ReadOps => paper_dir' = paper_dir /\ store' = store]_vars

\* a topic with a summary longer than the limit has been rendered, the
\* rendered summary is cut, the stored one is not, and another namespace is
\* corrupt
C10_Witness ==
    /\ last.op = "get_topic_papers"
    /\ last.out.kind = "papers"
    /\ \E i \in DOMAIN last.out.entries :
         /\ StrLen(store[TopicDir(last.topic)].data[i].val.summary) > SummaryLimit
         /\ StrLen(last.out.entries[i].summary) = SummaryLimit + 3
    /\ \E n \in Names : Unparseable(store[n])

====
